---- MODULE Spec2Model ----
(***************************************************************************)
(* AIEvoDev: the adversarial test-evolution core.                          *)
(*                                                                         *)
(*   EvolutionOrchestrator.evolve_tests   drq_engine/evolution_orchestrator *)
(*   FitnessEvaluator.evaluate_tests      drq_engine/fitness_evaluator      *)
(*   TestingEnvironment                   environment/testing_env           *)
(*   inject_simple_fault                  utils/fault_injector              *)
(*                                                                         *)
(* One run of evolve_tests is modelled as a sequential process whose       *)
(* position is pc.  Every call of a TestingEnvironment method, of the      *)
(* suite generator and of the fault injector is one step; the outcome of   *)
(* every external call (generator, file system, subprocess) is chosen by   *)
(* the environment.                                                        *)
(*                                                                         *)
(* Five specifications: Spec is one run of evolve_tests; SpecScore is     *)
(* the end of evaluate_tests (rate, total score) over every outcome of     *)
(* the steps before it; SpecMutate is inject_simple_fault called any       *)
(* number of times in a process that uses the generator of `random`        *)
(* elsewhere too; SpecSandbox is a process holding several                 *)
(* TestingEnvironment objects at a time; SpecRuns is several               *)
(* EvolutionOrchestrator objects under one project root.                   *)
(*                                                                         *)
(* Numbers.  Python floats are modelled by exact rationals, scaled to      *)
(* integers: a percentage p is the integer p * Scale, a total score s the  *)
(* integer s * 10 * Scale.  Texts that only flow through (stdout, the raw  *)
(* coverage report, the timestamp, hash and excerpt of a history entry)    *)
(* are left out of the records.                                            *)
(***************************************************************************)
EXTENDS Integers, Sequences, FiniteSets, TLC

(* ------------------------------ bounds -------------------------------- *)

\* Largest max_generations a run is started with.
MaxGenerations == 2

\* Most external calls of one run that deviate from their nominal outcome
\* (a raising generator, a file-system error, a timeout, a missing
\* executable, a flaky exit status, an unexpected coverage result).
MaxFaults == 1

\* The states other code of the process can leave the generator of `random`
\* in are 1..MaxAmbient.  A run of evolve_tests, which draws only after
\* seeding, starts with the generator in state MaxAmbient.
MaxAmbient == 6

\* Largest num_faults inject_simple_fault is called with.
MaxRequested == 5

(* ------------------------- program constants -------------------------- *)

\* evaluate_tests(..., num_fault_injections: int = 3); evolve_tests never
\* overrides it.
num_fault_injections == 3

\* test_spec.get("test_specifications", {}).get("min_coverage_percentage", 0)
DefaultMinCoverage == 0

(* ------------------------------- values ------------------------------- *)

\* Python's None (in a dict-typed and in a str-typed place) and the empty
\* dict {}.
None == [none |-> TRUE]
NoneStr == "None"
EmptyDict == [empty_dict |-> TRUE]

\* Suite texts the generator can return.
Suites == {"suite_strong", "suite_weak", "suite_weak_twin", "suite_wrong"}

\* What a suite does when nothing goes wrong around it: whether it passes
\* on the original function, whether it fails on a function that computes
\* something else, and the (covered, missing) lines of its coverage report.
Behaviour(tests) ==
  CASE tests = "suite_strong" -> [passes |-> TRUE, kills |-> TRUE, totals |-> <<2, 0>>]
    [] tests = "suite_wrong"  -> [passes |-> FALSE, kills |-> TRUE, totals |-> <<0, 0>>]
    [] OTHER                  -> [passes |-> TRUE, kills |-> FALSE, totals |-> <<1, 1>>]

\* The text written for a generation whose generator call raised.
ERROR_GENERATION == "ERROR_GENERATION"

RECURSIVE Factorial(_)
Factorial(n) == IF n <= 1 THEN 1 ELSE n * Factorial(n - 1)

\* A percentage p is stored as p * Scale: hundredths of a percent (coverage
\* is rounded to two decimals) over every denominator 1..num_fault_injections
\* of the bug detection rate.
Scale == 100 * Factorial(num_fault_injections)

Pct(p) == p * Scale

\* A total score s is stored as s * ScoreScale (the weights are tenths).
ScoreScale == 10 * Scale

(* ------------------ random.seed(0): the seeded stream ------------------ *)

\* random.seed(0) followed by draws: every draw of at most three bits takes
\* the top bits of the next 32-bit word of the generator.  These are the top
\* three bits of the first words after seed(0).
Mt0Bits ==
  <<6, 3, 6, 7, 3, 0, 2, 7, 4, 3, 3, 7, 6, 6, 2, 7, 3, 2, 4, 7, 7, 1, 4, 1,
    2, 1, 6, 0, 4, 6, 2, 7, 7, 4, 7, 5, 6, 4, 7, 1, 2, 0, 5, 0, 7, 6, 5, 2,
    3, 4, 0, 2, 3, 2, 4, 5, 7, 1, 7, 4, 3, 3, 6, 4>>

\* The state of the module-level generator of `random` is the number of the
\* next word it hands out on this stream: 1 right after random.seed(0), a
\* later number after draws.  (Any other state of the generator, such as the
\* one the process starts with, is represented by a position on this
\* stream; evolve_tests never draws from such a state without seeding.)

\* An injection that does not seed: the generator goes on from where it is.
seed0_skipped(state) == state

\* random.seed(0)
seed0(state) == 1

BitLength(m) == IF m >= 4 THEN 3 ELSE IF m >= 2 THEN 2 ELSE 1

TopBits(k, pos) ==
  LET w == Mt0Bits[pos]
  IN  IF k = 3 THEN w ELSE IF k = 2 THEN w \div 2 ELSE w \div 4

\* Random._randbelow_with_getrandbits(m) reading the stream from word pos
\* (1-based): draws BitLength(m) bits until the value is below m.
RECURSIVE RandBelow(_, _)
RandBelow(m, pos) ==
  LET r == TopBits(BitLength(m), pos)
  IN  IF r < m THEN [value |-> r, pos |-> pos + 1] ELSE RandBelow(m, pos + 1)

\* random.sample(population, k) for a population of length n <= 7 (the pool
\* branch): the chosen 1-based indices in order, and the stream position.
RECURSIVE SamplePool(_, _, _, _, _)
SamplePool(pool, n, k, i, pos) ==
  IF i = k THEN [result |-> <<>>, pos |-> pos]
  ELSE LET d    == RandBelow(n - i, pos)
           j    == d.value + 1
           rest == SamplePool([pool EXCEPT ![j] = pool[n - i]], n, k, i + 1, d.pos)
       IN  [result |-> <<pool[j]>> \o rest.result, pos |-> rest.pos]

RandomSample(n, k, pos) == SamplePool([x \in 1..n |-> x], n, k, 0, pos)

(* --------------------------- source texts ----------------------------- *)

\* A source text is a syntax tree plus its layout.  The tree is the sequence
\* of its statement-level nodes, [kind, op]; a text that does not parse has
\* tree = <<>> and syntax_ok = FALSE.  ast.unparse renders the "canonical"
\* layout; "padded" is canonical text with surrounding white space, "raw" is
\* any other layout (comments, spacing, quoting).
BinOps == <<"Add", "Sub", "Mult", "Div", "Mod">>
CmpOps == <<"Eq", "NotEq", "Lt", "LtE", "Gt", "GtE">>
BoolOps == <<"And", "Or">>

SiteKinds == {"BinOp", "Compare", "BoolOp", "If", "While", "Return"}

Node(kind, op) == [kind |-> kind, op |-> op]

Text(tree, layout) == [syntax_ok |-> TRUE, tree |-> tree, layout |-> layout]
Unparsable(name) == [syntax_ok |-> FALSE, tree |-> <<>>, layout |-> name]

\* str.strip()
Strip(text) ==
  IF text.syntax_ok /\ text.layout = "padded" THEN [text EXCEPT !.layout = "canonical"]
  ELSE text

\* FaultInjector.visit: the nodes collected as possible fault locations.
PossibleFaultLocations(tree) ==
  SelectSeq([x \in 1..Len(tree) |-> x], LAMBDA x : tree[x].kind \in SiteKinds)

Without(ops, current) == SelectSeq(ops, LAMBDA o : o # current)

\* random.choice(ops other than the current one)
ChoiceOther(ops, current, pos) ==
  LET cands == Without(ops, current)
      d     == RandBelow(Len(cands), pos)
  IN  [value |-> cands[d.value + 1], pos |-> d.pos]

\* _mutate_binop, _mutate_compare, _mutate_boolop, _mutate_if_condition,
\* _mutate_return_value; a While node has no branch in the dispatch.
MutateNode(node, pos) ==
  CASE node.kind = "BinOp" ->
         LET c == ChoiceOther(BinOps, node.op, pos)
         IN  [node |-> Node("BinOp", c.value), pos |-> c.pos]
    [] node.kind = "Compare" ->
         LET c == ChoiceOther(CmpOps, node.op, pos)
         IN  [node |-> Node("Compare", c.value), pos |-> c.pos]
    [] node.kind = "BoolOp" ->
         LET c == ChoiceOther(BoolOps, node.op, pos)
         IN  [node |-> Node("BoolOp", c.value), pos |-> c.pos]
    [] node.kind = "If" ->
         [node |-> Node("If", IF node.op = "not" THEN "plain" ELSE "not"), pos |-> pos]
    [] node.kind = "Return" ->
         [node |-> Node("Return", IF node.op = "none" THEN "none" ELSE "zero"), pos |-> pos]
    [] OTHER -> [node |-> node, pos |-> pos]

\* _inject_faults_in_tree counting only the nodes a mutation changed.
RECURSIVE InjectFaultsInTreeCountingChanges(_, _, _, _, _, _)
InjectFaultsInTreeCountingChanges(tree, selected, target, x, faults, pos) ==
  IF x > Len(tree) THEN [tree |-> tree, faults_injected |-> faults, pos |-> pos]
  ELSE IF x \in selected /\ faults < target
       THEN LET m == MutateNode(tree[x], pos)
                t == [tree EXCEPT ![x] = m.node]
                f == IF m.node = tree[x] THEN faults ELSE faults + 1
            IN  IF f = target
                THEN [tree |-> t, faults_injected |-> f, pos |-> m.pos]
                ELSE InjectFaultsInTreeCountingChanges(t, selected, target, x + 1, f, m.pos)
       ELSE InjectFaultsInTreeCountingChanges(tree, selected, target, x + 1, faults, pos)

\* FaultInjector._inject_faults_in_tree from node x on.
RECURSIVE InjectFaultsInTree(_, _, _, _, _, _)
InjectFaultsInTree(tree, selected, target, x, faults, pos) ==
  IF x > Len(tree) THEN [tree |-> tree, faults_injected |-> faults, pos |-> pos]
  ELSE IF x \in selected /\ faults < target
       THEN LET m == MutateNode(tree[x], pos)
                t == [tree EXCEPT ![x] = m.node]
            IN  IF faults + 1 = target
                THEN [tree |-> t, faults_injected |-> faults + 1, pos |-> m.pos]
                ELSE InjectFaultsInTree(t, selected, target, x + 1, faults + 1, m.pos)
       ELSE InjectFaultsInTree(tree, selected, target, x + 1, faults, pos)

Min(a, b) == IF a < b THEN a ELSE b

\* FaultInjector.inject_faults on a generator in the given state: the
\* mutated tree, faults_injected, and the state the generator is left in.
InjectFaults(tree, target_fault_count, state) ==
  LET locs == PossibleFaultLocations(tree)
  IN  IF Len(locs) = 0 THEN [tree |-> tree, faults_injected |-> 0, state |-> state]
      ELSE LET s   == RandomSample(Len(locs), Min(target_fault_count, Len(locs)),
                                   seed0(state))
               sel == {locs[s.result[y]] : y \in 1..Len(s.result)}
               r   == InjectFaultsInTree(tree, sel, target_fault_count, 1, 0, s.pos)
           IN  [tree |-> r.tree, faults_injected |-> r.faults_injected, state |-> r.pos]

\* inject_simple_fault giving back an empty text when the input does not
\* parse.
inject_simple_fault_empty_on_error(code, num_faults, state) ==
  IF ~code.syntax_ok THEN [text |-> Unparsable("empty"), faults_injected |-> 0, state |-> state]
  ELSE LET r == InjectFaults(code.tree, num_faults, state)
       IN  [text |-> Text(r.tree, "canonical"), faults_injected |-> r.faults_injected,
            state |-> r.state]

\* inject_simple_fault(code, num_faults): ast.parse, inject, ast.unparse; the
\* input is returned as it is when it does not parse.  The result holds the
\* returned text, the injector's faults_injected and the generator's state.
inject_simple_fault(code, num_faults, state) ==
  IF ~code.syntax_ok THEN [text |-> code, faults_injected |-> 0, state |-> state]
  ELSE LET r == InjectFaults(code.tree, num_faults, state)
       IN  [text |-> Text(r.tree, "canonical"), faults_injected |-> r.faults_injected,
            state |-> r.state]

(* ------------------------- TestingEnvironment ------------------------- *)

\* str.lower() on the framework names of the model.
Lower(name) == IF name = "PyTest" THEN "pytest" ELSE name

\* What the external test process can do: exit with a status, exceed the
\* timeout, be missing, or fail to start for another reason.
ExitCodes == {0, 1}
ProcessOutcomes ==
  [kind : {"exit"}, code : ExitCodes]
    \cup [kind : {"timeout", "not_found", "os_error"}, code : {0}]

\* run_tests without its `except subprocess.TimeoutExpired` clause.
run_tests_timeout_uncaught(selector, outcome) ==
  IF Lower(selector) \notin {"pytest", "unittest"} \/ outcome.kind = "timeout"
  THEN [raised |-> TRUE, return_code |-> 0, stderr |-> "exception"]
  ELSE [raised |-> FALSE,
        return_code |-> IF outcome.kind = "exit" THEN outcome.code ELSE 1,
        stderr |-> IF outcome.kind = "exit" THEN "" ELSE "Error"]

\* TestingEnvironment.run_tests(framework) under a process outcome.
run_tests(selector, outcome) ==
  IF Lower(selector) \notin {"pytest", "unittest"}
  THEN [raised |-> TRUE, return_code |-> 0, stderr |-> "ValueError: Unsupported test framework"]
  ELSE CASE outcome.kind = "exit" ->
              [raised |-> FALSE, return_code |-> outcome.code, stderr |-> ""]
         [] outcome.kind = "timeout" ->
              [raised |-> FALSE, return_code |-> 1, stderr |-> "Error: Test execution timed out."]
         [] outcome.kind = "not_found" ->
              [raised |-> FALSE, return_code |-> 1,
               stderr |-> "Error: pytest/python executable not found."]
         [] OTHER ->
              [raised |-> FALSE, return_code |-> 1, stderr |-> "Error running tests"]

\* round(x, 2) of x = num / den percent, in hundredths (ties to even).
RoundHundredths(num, den) ==
  LET q == (num * 10000) \div den
      r == (num * 10000) % den
  IN  IF 2 * r > den \/ (2 * r = den /\ q % 2 = 1) THEN q + 1 ELSE q

\* What the coverage tool can do: the erase, run or report process is
\* missing or times out (the exception leaves get_coverage), the run or the
\* report exits non-zero, coverage.json is absent or unreadable, or the
\* report holds the totals (covered_lines, missing_lines).
CoverageTotals == {<<0, 0>>, <<1, 1>>, <<2, 0>>}
CoverageFailures ==
  {"erase_not_found", "run_timeout", "run_failed", "report_timeout",
   "report_failed", "json_missing", "json_malformed"}
CoverageOutcomes ==
  [kind : CoverageFailures, totals : {<<0, 0>>}]
    \cup [kind : {"totals"}, totals : CoverageTotals]

\* TestingEnvironment.get_coverage() under a coverage outcome.
get_coverage(outcome) ==
  CASE outcome.kind \in {"erase_not_found", "run_timeout", "report_timeout"} ->
         [raised |-> TRUE, percentage |-> 0, report |-> outcome.kind]
    [] outcome.kind = "run_failed" ->
         [raised |-> FALSE, percentage |-> 0, report |-> "Coverage run failed"]
    [] outcome.kind = "report_failed" ->
         [raised |-> FALSE, percentage |-> 0, report |-> "Coverage report failed"]
    [] outcome.kind = "json_missing" ->
         [raised |-> FALSE, percentage |-> 0, report |-> "Coverage JSON report not generated."]
    [] outcome.kind = "json_malformed" ->
         [raised |-> FALSE, percentage |-> 0, report |-> "Failed to parse coverage JSON report."]
    [] OTHER ->
         LET total_covered == outcome.totals[1]
             total_missed  == outcome.totals[2]
             total_lines   == total_covered + total_missed
         IN  IF total_lines > 0
             THEN [raised |-> FALSE,
                   percentage |-> RoundHundredths(total_covered, total_lines)
                                    * Factorial(num_fault_injections),
                   report |-> "coverage.json"]
             ELSE [raised |-> FALSE, percentage |-> 0,
                   report |-> "No executable lines found for coverage."]

\* A naming that hands out one name to every environment.
uuid4_fixed(issued) == 1

\* str(uuid.uuid4()): a random 122-bit name.  Two draws are taken never to
\* coincide: the issued-th draw of a process is modelled as the name
\* issued + 1.
uuid4(issued) == issued + 1

\* The files setup_environment writes: the source file, the test file and
\* __init__.py.
SetupFiles(source_filename, test_filename) ==
  {source_filename, test_filename, "__init__.py"}

\* A cleanup that removes nothing.
cleanup_noop(dirs, run_dir) == dirs

\* TestingEnvironment.cleanup(): shutil.rmtree(run_dir) when it exists.
cleanup(dirs, run_dir) == dirs \ {run_dir}

(* -------------------------- FitnessEvaluator -------------------------- *)

\* dict.get(key, default)
Get(dict, key, default) == IF key \in DOMAIN dict THEN dict[key] ELSE default

\* The results dict evaluate_tests starts from.
InitialResults ==
  [test_pass_rate_correct_function |-> 0,
   code_coverage_percentage |-> 0,
   bug_detection_rate |-> 0,
   false_positives_detected |-> FALSE,
   total_score |-> 0]

\* A bug detection rate that is 100 when no mutant was attempted.
BugDetectionRateVacuous(detected, attempted) ==
  IF attempted > 0 THEN (detected * Pct(100)) \div attempted ELSE Pct(100)

\* (detected_bugs / total_faults_attempted) * 100, or 0.0
BugDetectionRate(detected, attempted) ==
  IF attempted > 0 THEN (detected * Pct(100)) \div attempted ELSE 0

Max(a, b) == IF a > b THEN a ELSE b

\* The total score without its final max(0.0, score).
TotalScoreUnclamped(r, min_coverage_spec) ==
  LET pass   == r.test_pass_rate_correct_function
      cov    == r.code_coverage_percentage
      s1     == IF r.false_positives_detected THEN 0 - 100 * ScoreScale ELSE 0
      s2     == s1 + pass * 5
      s3     == IF pass = Pct(100)
                THEN s2 + cov * 3
                       - (IF cov < Pct(min_coverage_spec)
                          THEN (Pct(min_coverage_spec) - cov) * 5 ELSE 0)
                ELSE s2 - cov * 1
      s4     == IF pass = Pct(100) /\ ~r.false_positives_detected
                THEN s3 + r.bug_detection_rate * 2 ELSE s3
  IN  s4

\* The total score with the false-positive penalty added instead of
\* subtracted.
TotalScorePenaltyAdded(r, min_coverage_spec) ==
  LET pass   == r.test_pass_rate_correct_function
      cov    == r.code_coverage_percentage
      s1     == IF r.false_positives_detected THEN 100 * ScoreScale ELSE 0
      s2     == s1 + pass * 5
      s3     == IF pass = Pct(100)
                THEN s2 + cov * 3
                       - (IF cov < Pct(min_coverage_spec)
                          THEN (Pct(min_coverage_spec) - cov) * 5 ELSE 0)
                ELSE s2 - cov * 1
      s4     == IF pass = Pct(100) /\ ~r.false_positives_detected
                THEN s3 + r.bug_detection_rate * 2 ELSE s3
  IN  Max(0, s4)

\* The total score with the coverage term (min_coverage_spec - coverage) * 0.5
\* subtracted whether or not the coverage is below the target.
TotalScorePenaltyAlways(r, min_coverage_spec) ==
  LET pass   == r.test_pass_rate_correct_function
      cov    == r.code_coverage_percentage
      s1     == IF r.false_positives_detected THEN 0 - 100 * ScoreScale ELSE 0
      s2     == s1 + pass * 5
      s3     == IF pass = Pct(100)
                THEN s2 + cov * 3 - (Pct(min_coverage_spec) - cov) * 5
                ELSE s2 - cov * 1
      s4     == IF pass = Pct(100) /\ ~r.false_positives_detected
                THEN s3 + r.bug_detection_rate * 2 ELSE s3
  IN  Max(0, s4)

\* Section 3 of evaluate_tests: the total score of a results dict, in units
\* of 1 / ScoreScale.
TotalScore(r, min_coverage_spec) ==
  LET pass   == r.test_pass_rate_correct_function
      cov    == r.code_coverage_percentage
      s1     == IF r.false_positives_detected THEN 0 - 100 * ScoreScale ELSE 0
      s2     == s1 + pass * 5
      s3     == IF pass = Pct(100)
                THEN s2 + cov * 3
                       - (IF cov < Pct(min_coverage_spec)
                          THEN (Pct(min_coverage_spec) - cov) * 5 ELSE 0)
                ELSE s2 - cov * 1
      s4     == IF pass = Pct(100) /\ ~r.false_positives_detected
                THEN s3 + r.bug_detection_rate * 2 ELSE s3
  IN  Max(0, s4)

(* ----------------------- EvolutionOrchestrator ------------------------ *)

\* The entry _save_generation_data builds (its timestamp, hash and excerpt
\* are left out).
Entry(generation, fitness_results, status) ==
  [generation |-> generation, fitness_results |-> fitness_results, status |-> status]

\* A save that keeps only the newest entry.
AppendEntryOverwriting(history, entry) == <<entry>>

\* self.evolution_history.append(entry)
AppendEntry(history, entry) == Append(history, entry)

\* json.dump(self.evolution_history, f): the file is rewritten with the
\* whole list.
DumpHistory(file, history) == history

\* The selection test with the comparison reversed, and with >= for >.
FitterReversed(candidate, best) == candidate.total_score < best.total_score
FitterOrEqual(candidate, best) == candidate.total_score >= best.total_score

\* The test of the elitism selection.
Fitter(candidate, best) == candidate.total_score > best.total_score

\* A generation 0 that becomes the best only with a positive score.
InitialSelectionIfPositive(tests, fitness) ==
  IF fitness.total_score > 0
  THEN [tests |-> tests, fitness |-> fitness, status |-> "initial_generation"]
  ELSE [tests |-> NoneStr, fitness |-> EmptyDict, status |-> "initial_generation"]

\* Generation 0: the initial suite becomes the current best.
InitialSelection(tests, fitness) ==
  [tests |-> tests, fitness |-> fitness, status |-> "initial_generation"]

\* Generations 1..max: the selection between the candidate and the best.
Selection(tests, fitness, best_tests, best_fitness) ==
  IF Fitter(fitness, best_fitness)
  THEN [tests |-> tests, fitness |-> fitness, status |-> "new_best"]
  ELSE [tests |-> best_tests, fitness |-> best_fitness, status |-> "not_best"]

(* ------------------------------ inputs -------------------------------- *)

\* calculate_average of src/utils.py (an if, a raise, a return of a
\* division), as the author wrote it.
SourceAverage ==
  Text(<<Node("If", "not"), Node("Other", "Raise"), Node("Return", "expr"),
         Node("BinOp", "Div")>>, "raw")

\* A function without any mutable site, in the layout ast.unparse renders.
SourceNoSites == Text(<<Node("Other", "Pass")>>, "canonical")

\* A function without any mutable site as its author wrote it (a comment,
\* the author's spacing).
SourceNoSitesRaw == Text(<<Node("Other", "Pass")>>, "raw")

\* A text that is not valid Python.
SourceInvalid == Unparsable("invalid")

\* A function of two mutable sites: the return of a sum.
SourceTwoSites == Text(<<Node("Return", "expr"), Node("BinOp", "Add")>>, "raw")

\* A function with a loop and a return without a value: a while, its
\* comparison, a subtraction, a bare return.
SourceLoop ==
  Text(<<Node("While", "loop"), Node("Compare", "Gt"), Node("BinOp", "Sub"),
         Node("Return", "none")>>, "raw")

\* The texts inject_simple_fault is called on.
MutationSources ==
  {SourceAverage, SourceNoSites, SourceNoSitesRaw, SourceInvalid, SourceTwoSites,
   SourceLoop}

\* The parsed specification documents: one complete, one naming a framework
\* the environment does not support, one without test_specifications.
SpecComplete ==
  [test_specifications |-> [framework |-> "PyTest", min_coverage_percentage |-> 90]]
SpecNose == [test_specifications |-> [framework |-> "nose"]]
SpecBare == [problem |-> "average"]

\* The (target function, specification) pairs a run is started with.
RunInputs ==
  {<<SourceAverage, SpecComplete>>, <<SourceNoSites, SpecBare>>,
   <<SourceInvalid, SpecComplete>>, <<SourceAverage, SpecNose>>,
   <<SourceNoSitesRaw, SpecBare>>}

\* What the suite generator can do: return a suite text or raise.
GeneratorReturns == [raised : {FALSE}, tests : Suites]
GeneratorRaises == [raised : {TRUE}, tests : {NoneStr}]

\* What a file-system call (os.makedirs, open/write, shutil.rmtree) can do.
FsOutcomes == {"ok", "os_error"}

\* The nominal outcome of the test process for a suite on a source text:
\* the suite's verdict on the original when the text has the original's
\* tree, its verdict on a changed function otherwise.
NominalRun(tests, code, original) ==
  LET b == Behaviour(tests)
      fails == IF code.tree = original.tree THEN ~b.passes ELSE b.kills
  IN  [kind |-> "exit", code |-> IF fails THEN 1 ELSE 0]

\* The nominal outcome of the coverage tool: `coverage run` exits with the
\* status of the tests it runs.
NominalCoverage(tests) ==
  LET b == Behaviour(tests)
  IN  IF b.passes THEN [kind |-> "totals", totals |-> b.totals]
      ELSE [kind |-> "run_failed", totals |-> <<0, 0>>]

\* An external call ends in its nominal outcome(s) at no cost, or in any
\* other outcome as one more fault of the run.
Deviations(nominal, all) ==
  {<<o, 0>> : o \in nominal} \cup {<<o, 1>> : o \in all \ nominal}

\* run_tests starts no process when it rejects the framework.
NotStarted == [kind |-> "not_started", code |-> 0]

RunChoices(selector, tests, code, original) ==
  IF Lower(selector) \in {"pytest", "unittest"}
  THEN Deviations({NominalRun(tests, code, original)}, ProcessOutcomes)
  ELSE {<<NotStarted, 0>>}

(* ------------------------------- state -------------------------------- *)

VARIABLES
  pc,                      \* position of evolve_tests / evaluate_tests
  exception,               \* the exception that left evolve_tests, or "none"
  max_generations,         \* evolve_tests arguments
  target_function_code,
  parsed_gsd_spec,
  gen,                     \* generation being processed
  requests,                \* generator calls so far: generation, feedback
                           \* passed, whether the call raised, text returned
  evolution_history,       \* self.evolution_history
  history_file,            \* evolution_history.json of the run
  tests_files,             \* tests_gen_<n>.py of the run: generation -> text
  current_best_tests,
  current_best_fitness,
  candidate_tests,         \* suite of the generation under evaluation
  candidate_fitness,       \* what evaluate_tests returned for it
  results,                 \* evaluate_tests: the results dict
  i,                       \* evaluate_tests: fault injection index
  detected_bugs,
  total_faults_attempted,
  mutated_function_code,
  env_run_dir,             \* run_dir of the environment in use, 0 when none
  last_run,                \* what run_tests just returned or raised (the
                           \* locals return_code, stdout, stderr; they
                           \* are read once, right after the call)
  last_coverage,           \* what get_coverage just returned or raised
  run_dirs,                \* working areas that exist under output/test_runs
  uuid_count,              \* uuid4 calls so far; the n-th call names area n
  faults,                  \* external calls that deviated so far
  random_state,            \* state of the module-level generator of `random`
  injections,              \* inject_simple_fault calls on target_function_code:
                           \* num_faults -> what the latest such call
                           \* returned, its injector's faults_injected, and
                           \* whether it repeated an earlier call
  environments,            \* the TestingEnvironment objects of a process that
                           \* holds several at a time: run_dir, whether
                           \* setup_environment and cleanup were called
  sandbox_files,           \* files in the working areas: run_dir -> names
  clock,                   \* datetime.now(), in whole seconds
  orchestrators,           \* the EvolutionOrchestrator objects of runs that
                           \* share a project root: run_id, evolution_history
  output_dirs              \* output/evolution_runs: run_id -> the history
                           \* file and the suite files of that directory

run_vars == <<max_generations, target_function_code, parsed_gsd_spec>>
evo_vars == <<evolution_history, history_file, tests_files, current_best_tests,
              current_best_fitness>>
eval_vars == <<results, i, detected_bugs, total_faults_attempted,
               mutated_function_code, env_run_dir, last_run, last_coverage>>
fs_vars == <<run_dirs, uuid_count>>
inj_vars == <<random_state, injections>>
world_vars == <<environments, sandbox_files, clock, orchestrators, output_dirs>>

\* The environment takes outcome choice[1] at the cost choice[2].
Takes(choice) ==
  /\ faults + choice[2] <= MaxFaults
  /\ faults' = faults + choice[2]

vars == <<pc, exception, run_vars, world_vars, gen, requests, evo_vars, candidate_tests,
          candidate_fitness, eval_vars, fs_vars, faults, inj_vars>>

\* One evolve_tests run alone: no further environment objects, no other run.
WorldIdle ==
  /\ environments = <<>>
  /\ sandbox_files = <<>>
  /\ clock = 0
  /\ orchestrators = <<>>
  /\ output_dirs = <<>>

NoRun == [called |-> FALSE]
NoCoverage == [called |-> FALSE]

\* The locals of evaluate_tests outside a call of it.
EvalIdle ==
  /\ results = InitialResults
  /\ i = 0
  /\ detected_bugs = 0
  /\ total_faults_attempted = 0
  /\ mutated_function_code = None
  /\ env_run_dir = 0
  /\ last_run = NoRun
  /\ last_coverage = NoCoverage

\* evaluate_tests returns: its locals are gone.
EvalReturn ==
  /\ results' = InitialResults
  /\ i' = 0
  /\ detected_bugs' = 0
  /\ total_faults_attempted' = 0
  /\ mutated_function_code' = None
  /\ env_run_dir' = 0
  /\ last_run' = NoRun
  /\ last_coverage' = NoCoverage

Init ==
  /\ pc = "generate"
  /\ exception = "none"
  /\ max_generations \in 0..MaxGenerations
  /\ \E input \in RunInputs :
       /\ target_function_code = input[1]
       /\ parsed_gsd_spec = input[2]
  /\ gen = 0
  /\ requests = <<>>
  /\ evolution_history = <<>>
  /\ history_file = <<>>
  /\ tests_files = <<>>
  /\ current_best_tests = NoneStr
  /\ current_best_fitness = EmptyDict
  /\ candidate_tests = NoneStr
  /\ candidate_fitness = None
  /\ EvalIdle
  /\ run_dirs = {}
  /\ uuid_count = 0
  /\ faults = 0
  /\ random_state = MaxAmbient
  /\ injections = <<>>
  /\ WorldIdle

\* evaluate_tests: the two values it reads from the specification.
min_coverage_spec ==
  Get(Get(parsed_gsd_spec, "test_specifications", EmptyDict),
      "min_coverage_percentage", DefaultMinCoverage)
framework ==
  Get(Get(parsed_gsd_spec, "test_specifications", EmptyDict), "framework", "pytest")

\* An exception leaves evolve_tests: the run is over.
Abort(what) ==
  /\ pc' = "aborted"
  /\ exception' = what

\* The for loop of evolve_tests moves on to the next generation, or ends.
NextGeneration ==
  /\ gen' = gen + 1
  /\ pc' = IF gen + 1 <= max_generations THEN "generate" ELSE "done"
  /\ exception' = exception

\* _save_generation_data(generation, tests, fitness_results, status)
SaveGenerationData(generation, tests, fitness_results, status) ==
  LET history == AppendEntry(evolution_history, Entry(generation, fitness_results, status))
  IN  /\ evolution_history' = history
      /\ tests_files' = [g \in DOMAIN tests_files \cup {generation} |->
                           IF g = generation THEN tests ELSE tests_files[g]]
      /\ history_file' = DumpHistory(history_file, history)

\* cli.py select: reads tests_gen_<generation>.py from the output directory
\* of the run.  A missing file ends the command with exit code 1; otherwise
\* the text of the file is what gets copied to selected_tests/.
select(files, generation) ==
  IF generation \notin DOMAIN files
  THEN [exit_code |-> 1, selected_tests |-> NoneStr]
  ELSE [exit_code |-> 0, selected_tests |-> files[generation]]

(* ------------------------------ actions ------------------------------- *)

\* The last record of the in-memory history.
LastEntry(history) == history[Len(history)]

\* The feedback taken from the candidate evaluated last.
previous_evaluation_results_of_last_candidate(generation) ==
  IF generation = 0 THEN None ELSE LastEntry(evolution_history).fitness_results

\* The previous_evaluation_results argument of generate_tests: absent in
\* generation 0, self.current_best_fitness in the loop.
previous_evaluation_results(generation) ==
  IF generation = 0 THEN None ELSE current_best_fitness

\* evolve_tests asks the generator for the suite of generation gen.  In
\* generation 0 the call is outside any try; in generations 1..max a raise
\* is caught, recorded as an error generation, and the loop continues.
GenerateTests ==
  /\ pc = "generate"
  /\ \E choice \in Deviations(GeneratorReturns, GeneratorReturns \cup GeneratorRaises) :
     LET outcome == choice[1] IN
       /\ Takes(choice)
       /\ requests' = Append(requests,
            [generation |-> gen,
             previous_evaluation_results |-> previous_evaluation_results(gen),
             raised |-> outcome.raised,
             tests |-> outcome.tests])
       /\ IF outcome.raised
          THEN IF gen = 0
               THEN /\ Abort("generate_tests")
                    /\ UNCHANGED <<gen, evo_vars, candidate_tests>>
               ELSE /\ SaveGenerationData(gen, ERROR_GENERATION, EmptyDict, "error")
                    /\ NextGeneration
                    /\ UNCHANGED <<current_best_tests, current_best_fitness,
                                   candidate_tests>>
          ELSE /\ candidate_tests' = outcome.tests
               /\ pc' = "env_correct"
               /\ UNCHANGED <<exception, gen, evo_vars>>
  /\ UNCHANGED <<run_vars, world_vars, inj_vars, candidate_fitness, eval_vars, fs_vars>>

\* TestingEnvironment(base_dir): a new uuid4 name, os.makedirs.  The call
\* is outside the try of evaluate_tests.
CreateEnvironment ==
  /\ pc \in {"env_correct", "env_mutated"}
  /\ uuid_count' = uuid_count + 1
  /\ \E choice \in Deviations({"ok"}, FsOutcomes) :
       /\ Takes(choice)
       /\ IF choice[1] = "ok"
          THEN /\ run_dirs' = run_dirs \cup {uuid4(uuid_count)}
               /\ env_run_dir' = uuid4(uuid_count)
               /\ pc' = IF pc = "env_correct" THEN "setup_correct" ELSE "setup_mutated"
               /\ UNCHANGED exception
          ELSE /\ Abort("makedirs")
               /\ UNCHANGED <<run_dirs, env_run_dir>>
  /\ UNCHANGED <<run_vars, world_vars, inj_vars, gen, requests, evo_vars, candidate_tests, candidate_fitness,
                 results, i, detected_bugs, total_faults_attempted,
                 mutated_function_code, last_run, last_coverage>>

\* Where the try block of an environment goes when it is left, by its end
\* or by an exception: the finally clause.
Finally(position) ==
  IF position \in {"setup_correct", "run_correct", "coverage_correct"}
  THEN "cleanup_correct" ELSE "cleanup_mutated"

\* env.setup_environment(source, tests): the files are written; an OSError
\* is caught by evaluate_tests.
SetupEnvironment ==
  /\ pc \in {"setup_correct", "setup_mutated"}
  /\ \E choice \in Deviations({"ok"}, FsOutcomes) :
       /\ Takes(choice)
       /\ pc' = IF choice[1] = "ok"
                THEN (IF pc = "setup_correct" THEN "run_correct" ELSE "run_mutated")
                ELSE Finally(pc)
  /\ UNCHANGED <<exception, run_vars, world_vars, inj_vars, gen, requests, evo_vars, candidate_tests,
                 candidate_fitness, eval_vars, fs_vars>>

\* RunTestsCorrect with a false positive that is never flagged.
RunTestsCorrectNeverFlags ==
  /\ pc = "run_correct"
  /\ \E choice \in RunChoices(framework, candidate_tests, target_function_code,
                             target_function_code) :
       LET outcome == choice[1]
           r == run_tests(framework, outcome)
       IN  /\ Takes(choice)
           /\ last_run' = [called |-> TRUE, outcome |-> outcome, result |-> r]
           /\ IF r.raised
              THEN /\ pc' = Finally(pc)
                   /\ UNCHANGED results
              ELSE /\ pc' = "coverage_correct"
                   /\ results' =
                        IF r.return_code = 0
                        THEN [results EXCEPT !.test_pass_rate_correct_function = Pct(100)]
                        ELSE [results EXCEPT !.test_pass_rate_correct_function = 0]
  /\ UNCHANGED <<exception, run_vars, world_vars, inj_vars, gen, requests, evo_vars, candidate_tests,
                 candidate_fitness, i, detected_bugs, total_faults_attempted,
                 mutated_function_code, env_run_dir, last_coverage, fs_vars>>

\* env_correct.run_tests(framework) and the pass rate / false positive it
\* sets.
RunTestsCorrect ==
  /\ pc = "run_correct"
  /\ \E choice \in RunChoices(framework, candidate_tests, target_function_code,
                             target_function_code) :
       LET outcome == choice[1]
           r == run_tests(framework, outcome)
       IN  /\ Takes(choice)
           /\ last_run' = [called |-> TRUE, outcome |-> outcome, result |-> r]
           /\ IF r.raised
              THEN /\ pc' = Finally(pc)
                   /\ UNCHANGED results
              ELSE /\ pc' = "coverage_correct"
                   /\ results' =
                        IF r.return_code = 0
                        THEN [results EXCEPT !.test_pass_rate_correct_function = Pct(100)]
                        ELSE [results EXCEPT !.false_positives_detected = TRUE,
                                             !.test_pass_rate_correct_function = 0]
  /\ UNCHANGED <<exception, run_vars, world_vars, inj_vars, gen, requests, evo_vars, candidate_tests,
                 candidate_fitness, i, detected_bugs, total_faults_attempted,
                 mutated_function_code, env_run_dir, last_coverage, fs_vars>>

\* env_correct.get_coverage()
GetCoverage ==
  /\ pc = "coverage_correct"
  /\ \E choice \in Deviations({NominalCoverage(candidate_tests)}, CoverageOutcomes) :
       LET outcome == choice[1]
           c == get_coverage(outcome)
       IN  /\ Takes(choice)
           /\ last_coverage' = [called |-> TRUE, outcome |-> outcome, result |-> c]
           /\ results' = IF c.raised THEN results
                         ELSE [results EXCEPT !.code_coverage_percentage = c.percentage]
  /\ pc' = Finally(pc)
  /\ last_run' = NoRun
  /\ UNCHANGED <<exception, run_vars, world_vars, inj_vars, gen, requests, evo_vars, candidate_tests,
                 candidate_fitness, i, detected_bugs, total_faults_attempted,
                 mutated_function_code, env_run_dir, fs_vars>>

\* finally: env.cleanup().  shutil.rmtree can raise; the exception leaves
\* evaluate_tests and evolve_tests, and the working area stays.
Cleanup ==
  /\ pc \in {"cleanup_correct", "cleanup_mutated"}
  /\ \E choice \in Deviations({"ok"}, FsOutcomes) :
       /\ Takes(choice)
       /\ IF choice[1] = "ok"
          THEN /\ run_dirs' = cleanup(run_dirs, env_run_dir)
               /\ env_run_dir' = 0
               /\ i' = IF pc = "cleanup_correct" THEN 0 ELSE i + 1
               /\ pc' = "inject"
               /\ UNCHANGED exception
          ELSE /\ Abort("rmtree")
               /\ UNCHANGED <<run_dirs, env_run_dir, i>>
  /\ last_run' = NoRun
  /\ last_coverage' = NoCoverage
  /\ UNCHANGED <<run_vars, world_vars, inj_vars, gen, requests, evo_vars, candidate_tests, candidate_fitness,
                 results, detected_bugs, total_faults_attempted, mutated_function_code,
                 uuid_count>>

\* The record of an inject_simple_fault call: what it returned, and whether
\* it repeated an earlier call after other code had used the generator.
Injected(log, num_faults, disturbed, r) ==
  [n \in DOMAIN log \cup {num_faults} |->
     IF n = num_faults
     THEN [text |-> r.text, faults_injected |-> r.faults_injected,
           repeated |-> n \in DOMAIN log /\ (disturbed \/ log[n].repeated)]
     ELSE log[n]]

\* One turn of the fault injection loop: inject_simple_fault(original, 1),
\* skipped when the stripped texts are equal.
InjectFault ==
  /\ pc = "inject"
  /\ i < num_fault_injections
  /\ LET r == inject_simple_fault(target_function_code, 1, random_state)
         mutated == r.text
     IN  /\ mutated_function_code' = mutated
         /\ random_state' = r.state
         /\ injections' = Injected(injections, 1, FALSE, r)
         /\ IF Strip(mutated) = Strip(target_function_code)
            THEN /\ i' = i + 1
                 /\ pc' = "inject"
                 /\ UNCHANGED total_faults_attempted
            ELSE /\ total_faults_attempted' = total_faults_attempted + 1
                 /\ pc' = "env_mutated"
                 /\ UNCHANGED i
  /\ UNCHANGED <<exception, run_vars, world_vars, gen, requests, evo_vars, candidate_tests,
                 candidate_fitness, results, detected_bugs, env_run_dir, last_run,
                 last_coverage, fs_vars, faults>>

\* env_mutated.run_tests(framework): a non-zero status counts as a detected
\* bug.
RunTestsMutated ==
  /\ pc = "run_mutated"
  /\ \E choice \in RunChoices(framework, candidate_tests, mutated_function_code,
                             target_function_code) :
       LET outcome == choice[1]
           r == run_tests(framework, outcome)
       IN  /\ Takes(choice)
           /\ last_run' = [called |-> TRUE, outcome |-> outcome, result |-> r]
           /\ detected_bugs' = IF ~r.raised /\ r.return_code # 0
                               THEN detected_bugs + 1 ELSE detected_bugs
  /\ pc' = Finally(pc)
  /\ UNCHANGED <<exception, run_vars, world_vars, inj_vars, gen, requests, evo_vars, candidate_tests,
                 candidate_fitness, results, i, total_faults_attempted,
                 mutated_function_code, env_run_dir, last_coverage, fs_vars>>

\* The end of evaluate_tests: bug detection rate, total score, return.
ReturnResults ==
  /\ pc = "inject"
  /\ i = num_fault_injections
  /\ LET rated == [results EXCEPT !.bug_detection_rate =
                     BugDetectionRate(detected_bugs, total_faults_attempted)]
     IN  candidate_fitness' = [rated EXCEPT !.total_score = TotalScore(rated, min_coverage_spec)]
  /\ pc' = "select"
  /\ EvalReturn
  /\ UNCHANGED <<exception, run_vars, world_vars, inj_vars, gen, requests, evo_vars, candidate_tests, fs_vars,
                 faults>>

\* evolve_tests after evaluate_tests returned: generation 0 becomes the
\* best; a later candidate replaces the best when it is fitter; the
\* generation is saved.
Select ==
  /\ pc = "select"
  /\ LET s == IF gen = 0
              THEN InitialSelection(candidate_tests, candidate_fitness)
              ELSE Selection(candidate_tests, candidate_fitness,
                             current_best_tests, current_best_fitness)
     IN  /\ current_best_tests' = s.tests
         /\ current_best_fitness' = s.fitness
         /\ SaveGenerationData(gen, candidate_tests, candidate_fitness, s.status)
  /\ NextGeneration
  /\ candidate_tests' = NoneStr
  /\ candidate_fitness' = None
  /\ UNCHANGED <<run_vars, world_vars, inj_vars, requests, eval_vars, fs_vars, faults>>

Next ==
  \/ GenerateTests
  \/ CreateEnvironment
  \/ SetupEnvironment
  \/ RunTestsCorrect
  \/ GetCoverage
  \/ Cleanup
  \/ InjectFault
  \/ RunTestsMutated
  \/ ReturnResults
  \/ Select

Spec == Init /\ [][Next]_vars

(* ------------------ the scorer over its whole domain ------------------- *)

\* Most executable lines in a coverage report of the scorer's inputs.
MaxLines == 10

\* What get_coverage can return as a percentage: round(covered / lines * 100, 2)
\* of a report of at most MaxLines lines, or 0.0.
CoveragePercentages ==
  {0} \cup UNION {{RoundHundredths(c, n) * Factorial(num_fault_injections) : c \in 0..n}
                    : n \in 1..MaxLines}

\* min_coverage_percentage values of a specification document.
MinCoverageTargets == {0, 50, 90, 100, 150}

ScoreSpecs ==
  {SpecBare} \cup
  {[test_specifications |-> [framework |-> "pytest", min_coverage_percentage |-> m]]
     : m \in MinCoverageTargets}

\* The results dict after part 1 of evaluate_tests: the suite passed the
\* original (any coverage), it failed it (any coverage: a coverage run that
\* warns is read on), or an exception left the try block before the status
\* was read (the initial dict).
OriginalOutcomes ==
  {[InitialResults EXCEPT !.test_pass_rate_correct_function = Pct(100),
                          !.code_coverage_percentage = c] : c \in CoveragePercentages}
    \cup
  {[InitialResults EXCEPT !.false_positives_detected = TRUE,
                          !.code_coverage_percentage = c] : c \in CoveragePercentages}
    \cup {InitialResults}

\* evaluate_tests at the end of its fault-injection loop, for any original
\* outcome, any counts of attempted and detected mutants, any specification.
InitScore ==
  /\ pc = "inject"
  /\ exception = "none"
  /\ max_generations = 0
  /\ target_function_code = SourceAverage
  /\ parsed_gsd_spec \in ScoreSpecs
  /\ gen = 0
  /\ requests = <<[generation |-> 0, previous_evaluation_results |-> None,
                   raised |-> FALSE, tests |-> "suite_strong"]>>
  /\ evolution_history = <<>>
  /\ history_file = <<>>
  /\ tests_files = <<>>
  /\ current_best_tests = NoneStr
  /\ current_best_fitness = EmptyDict
  /\ candidate_tests = "suite_strong"
  /\ candidate_fitness = None
  /\ results \in OriginalOutcomes
  /\ i = num_fault_injections
  /\ total_faults_attempted \in 0..num_fault_injections
  /\ detected_bugs \in 0..total_faults_attempted
  /\ mutated_function_code = None
  /\ env_run_dir = 0
  /\ last_run = NoRun
  /\ last_coverage = NoCoverage
  /\ run_dirs = {}
  /\ uuid_count = 0
  /\ faults = 0
  /\ random_state = MaxAmbient
  /\ injections = <<>>
  /\ WorldIdle

SpecScore == InitScore /\ [][ReturnResults]_vars

(* --------------- the fault injector over its whole domain --------------- *)

\* inject_simple_fault is called on a text with any num_faults, any number
\* of times, in a process whose other code uses the generator of `random`
\* as well.
InitMutate ==
  /\ pc = "inject_simple_fault"
  /\ exception = "none"
  /\ max_generations = 0
  /\ target_function_code \in MutationSources
  /\ parsed_gsd_spec = SpecBare
  /\ gen = 0
  /\ requests = <<>>
  /\ evolution_history = <<>>
  /\ history_file = <<>>
  /\ tests_files = <<>>
  /\ current_best_tests = NoneStr
  /\ current_best_fitness = EmptyDict
  /\ candidate_tests = NoneStr
  /\ candidate_fitness = None
  /\ EvalIdle
  /\ run_dirs = {}
  /\ uuid_count = 0
  /\ faults = 0
  /\ random_state \in 1..MaxAmbient
  /\ injections = <<>>
  /\ WorldIdle

\* What a call of inject_simple_fault leaves alone.
outside_injection ==
  <<exception, run_vars, world_vars, gen, requests, evo_vars, candidate_tests, candidate_fitness,
    results, i, detected_bugs, total_faults_attempted, env_run_dir, last_run,
    last_coverage, fs_vars, faults>>

\* inject_simple_fault(target_function_code, num_faults).  Here pc is what
\* the process did last.
InjectSimpleFault ==
  /\ pc \in {"inject_simple_fault", "other_random_use"}
  /\ pc' = "inject_simple_fault"
  /\ \E num_faults \in 1..MaxRequested :
       LET r == inject_simple_fault(target_function_code, num_faults, random_state)
       IN  /\ mutated_function_code' = r.text
           /\ random_state' = r.state
           /\ injections' = Injected(injections, num_faults, pc = "other_random_use", r)
  /\ UNCHANGED outside_injection

\* Other code of the process seeds the generator or draws from it.
OtherRandomUse ==
  /\ pc \in {"inject_simple_fault", "other_random_use"}
  /\ pc' = "other_random_use"
  /\ \E state \in (1..MaxAmbient) \ {random_state} : random_state' = state
  /\ UNCHANGED <<outside_injection, mutated_function_code, injections>>

NextMutate ==
  \/ InjectSimpleFault
  \/ OtherRandomUse

SpecMutate == InitMutate /\ [][NextMutate]_vars

(* ------------- several environments under one base directory ----------- *)

\* Most TestingEnvironment objects the process constructs.
MaxEnvironments == 3

\* source_filename arguments used by evaluate_tests: the default and the
\* name of a mutant's file.
SourceFilenames == {"target_function.py", "mutated_function_0.py"}

\* A process that holds several TestingEnvironment objects at a time and
\* calls their methods in any order.
InitSandbox ==
  /\ pc = "sandboxes"
  /\ exception = "none"
  /\ max_generations = 0
  /\ target_function_code = SourceAverage
  /\ parsed_gsd_spec = SpecBare
  /\ gen = 0
  /\ requests = <<>>
  /\ evolution_history = <<>>
  /\ history_file = <<>>
  /\ tests_files = <<>>
  /\ current_best_tests = NoneStr
  /\ current_best_fitness = EmptyDict
  /\ candidate_tests = NoneStr
  /\ candidate_fitness = None
  /\ EvalIdle
  /\ run_dirs = {}
  /\ uuid_count = 0
  /\ faults = 0
  /\ random_state = MaxAmbient
  /\ injections = <<>>
  /\ WorldIdle

\* What the methods of a TestingEnvironment leave alone.
outside_sandboxes ==
  <<pc, exception, run_vars, gen, requests, evo_vars, candidate_tests, candidate_fitness,
    eval_vars, faults, inj_vars, clock, orchestrators, output_dirs>>

\* The files of the working areas after the set of areas changed: a new
\* area is empty, an area that already existed keeps its files
\* (exist_ok=True), a removed area loses them.
FilesIn(dirs, files) ==
  [d \in dirs |-> IF d \in DOMAIN files THEN files[d] ELSE {}]

\* TestingEnvironment(base_dir): run_dir is base_dir joined with a uuid4
\* name; os.makedirs(run_dir, exist_ok=True).
NewSandbox ==
  /\ pc = "sandboxes"
  /\ Len(environments) < MaxEnvironments
  /\ LET run_dir == uuid4(uuid_count)
     IN  /\ uuid_count' = uuid_count + 1
         /\ run_dirs' = run_dirs \cup {run_dir}
         /\ sandbox_files' = FilesIn(run_dirs \cup {run_dir}, sandbox_files)
         /\ environments' = Append(environments,
              [run_dir |-> run_dir, phase |-> "created", written |-> {}])
  /\ UNCHANGED outside_sandboxes

\* env.setup_environment(source, tests, source_filename): _write_file makes
\* the directory of the file (again, when it is gone) and writes the file.
SandboxSetup ==
  /\ pc = "sandboxes"
  /\ \E e \in DOMAIN environments, source_filename \in SourceFilenames :
       LET run_dir == environments[e].run_dir
           names == SetupFiles(source_filename, "test_target_function.py")
           dirs == run_dirs \cup {run_dir}
       IN  /\ run_dirs' = dirs
           /\ sandbox_files' = [FilesIn(dirs, sandbox_files) EXCEPT ![run_dir] = @ \cup names]
           /\ environments' = [environments EXCEPT
                ![e].phase = "set_up",
                ![e].written = IF environments[e].phase = "cleaned"
                               THEN names ELSE @ \cup names]
  /\ UNCHANGED <<outside_sandboxes, uuid_count>>

\* env.cleanup(): shutil.rmtree(run_dir) when it exists.
SandboxCleanup ==
  /\ pc = "sandboxes"
  /\ \E e \in DOMAIN environments :
       /\ run_dirs' = cleanup(run_dirs, environments[e].run_dir)
       /\ sandbox_files' = FilesIn(cleanup(run_dirs, environments[e].run_dir), sandbox_files)
       /\ environments' = [environments EXCEPT ![e].phase = "cleaned", ![e].written = {}]
  /\ UNCHANGED <<outside_sandboxes, uuid_count>>

NextSandbox ==
  \/ NewSandbox
  \/ SandboxSetup
  \/ SandboxCleanup

SpecSandbox == InitSandbox /\ [][NextSandbox]_vars

(* ---------------- several runs under one project root ------------------ *)

\* Most EvolutionOrchestrator objects constructed, and the last instant of
\* the clock, in ticks.
MaxRuns == 2
MaxClock == 3

\* The clock advances in ticks finer than the second run_id is formatted to.
TicksPerSecond == 2

\* datetime.now().strftime("%Y%m%d_%H%M%S"): the instant cut to whole
\* seconds.
strftime(now) == now \div TicksPerSecond

\* os.makedirs(output_dir, exist_ok=True): a new directory is empty, an
\* existing one is taken over with what it holds.
MakeOutputDir(dirs, run_id) ==
  [d \in DOMAIN dirs \cup {run_id} |->
     IF d \in DOMAIN dirs THEN dirs[d]
     ELSE [history_file |-> <<>>, tests_files |-> <<>>]]

\* Runs are started at any instants by processes that share the project
\* root, and save their generations in any interleaving.
InitRuns ==
  /\ pc = "runs"
  /\ exception = "none"
  /\ max_generations = MaxGenerations
  /\ target_function_code = SourceAverage
  /\ parsed_gsd_spec = SpecBare
  /\ gen = 0
  /\ requests = <<>>
  /\ evolution_history = <<>>
  /\ history_file = <<>>
  /\ tests_files = <<>>
  /\ current_best_tests = NoneStr
  /\ current_best_fitness = EmptyDict
  /\ candidate_tests = NoneStr
  /\ candidate_fitness = None
  /\ EvalIdle
  /\ run_dirs = {}
  /\ uuid_count = 0
  /\ faults = 0
  /\ random_state = MaxAmbient
  /\ injections = <<>>
  /\ WorldIdle

\* What the orchestrators of the runs leave alone.
outside_runs ==
  <<pc, exception, run_vars, gen, requests, evo_vars, candidate_tests, candidate_fitness,
    eval_vars, fs_vars, faults, inj_vars, environments, sandbox_files>>

\* Time passes.
Tick ==
  /\ pc = "runs"
  /\ clock < MaxClock
  /\ clock' = clock + 1
  /\ UNCHANGED <<outside_runs, orchestrators, output_dirs>>

\* EvolutionOrchestrator(...): run_id from the clock, output_dir made.
NewOrchestrator ==
  /\ pc = "runs"
  /\ Len(orchestrators) < MaxRuns
  /\ LET run_id == strftime(clock)
     IN  /\ orchestrators' = Append(orchestrators,
              [run_id |-> run_id, evolution_history |-> <<>>, tests |-> <<>>])
         /\ output_dirs' = MakeOutputDir(output_dirs, run_id)
  /\ UNCHANGED <<outside_runs, clock>>

\* _save_generation_data of one run for its next generation: the entry is
\* appended to the run's history, tests_gen_<generation>.py is written and
\* evolution_history.json is rewritten in the run's output directory.
SaveGeneration ==
  /\ pc = "runs"
  /\ \E r \in DOMAIN orchestrators, tests \in Suites :
       LET o == orchestrators[r]
           generation == Len(o.evolution_history)
           status == IF generation = 0 THEN "initial_generation" ELSE "not_best"
           history == AppendEntry(o.evolution_history, Entry(generation, EmptyDict, status))
           dir == output_dirs[o.run_id]
       IN  /\ generation <= max_generations
           /\ orchestrators' = [orchestrators EXCEPT
                ![r].evolution_history = history,
                ![r].tests = Append(@, tests)]
           /\ output_dirs' = [output_dirs EXCEPT ![o.run_id] =
                [history_file |-> DumpHistory(dir.history_file, history),
                 tests_files |-> [g \in DOMAIN dir.tests_files \cup {generation} |->
                                    IF g = generation THEN tests ELSE dir.tests_files[g]]]]
  /\ UNCHANGED <<outside_runs, clock>>

NextRuns ==
  \/ Tick
  \/ NewOrchestrator
  \/ SaveGeneration

SpecRuns == InitRuns /\ [][NextRuns]_vars

(* ------------------------------ properties ---------------------------- *)

IsPrefix(a, b) == Len(a) <= Len(b) /\ \A k \in 1..Len(a) : a[k] = b[k]

Ended == pc \in {"done", "aborted"}

HasBest == current_best_fitness # EmptyDict

Statuses(history) == {history[k].status : k \in 1..Len(history)}

\* C1: across one run the total score of the current best never decreases,
\* whatever the candidates score and whichever generations end in error:
\* once a best exists, every step leaves a best whose score is >= the
\* score before the step.
C1_BestScoreNonDecreasing ==
  [][HasBest =>
       /\ current_best_fitness' # EmptyDict
       /\ current_best_fitness'.total_score >= current_best_fitness.total_score]_vars

\* A run in which the best has been replaced by a fitter candidate and a
\* generation has ended in error.
C1_Witness ==
  /\ HasBest
  /\ {"new_best", "error"} \subseteq Statuses(evolution_history)

\* C2: in every generation 1..max whose candidate is evaluated, a candidate
\* with a strictly greater total score becomes the best (suite and report)
\* and is recorded as new_best; any other candidate, one of equal score
\* included, leaves the best suite and report as they were and is recorded
\* as not_best.
C2_StrictElitism ==
  [][(pc = "select" /\ gen >= 1) =>
       /\ Len(evolution_history') = Len(evolution_history) + 1
       /\ LastEntry(evolution_history').generation = gen
       /\ LastEntry(evolution_history').fitness_results = candidate_fitness
       /\ IF candidate_fitness.total_score > current_best_fitness.total_score
          THEN /\ current_best_tests' = candidate_tests
               /\ current_best_fitness' = candidate_fitness
               /\ LastEntry(evolution_history').status = "new_best"
          ELSE /\ current_best_tests' = current_best_tests
               /\ current_best_fitness' = current_best_fitness
               /\ LastEntry(evolution_history').status = "not_best"]_vars

\* A run with a new_best generation followed by a candidate of another text
\* that only equalled the best's score and was recorded as not_best.
C2_Witness ==
  /\ "new_best" \in Statuses(evolution_history)
  /\ \E g \in DOMAIN tests_files :
       /\ g + 1 <= Len(evolution_history)
       /\ evolution_history[g + 1].status = "not_best"
       /\ evolution_history[g + 1].fitness_results.total_score
            = current_best_fitness.total_score
       /\ tests_files[g] # current_best_tests

\* C3: generation 0 asks the generator with no feedback report, is recorded
\* with the initial status (the code's tag is "initial_generation"), and
\* becomes the current best whatever its total score.
C3_InitialGeneration ==
  [][(pc = "select" /\ gen = 0) =>
       /\ requests = <<[generation |-> 0, previous_evaluation_results |-> None,
                        raised |-> FALSE, tests |-> candidate_tests]>>
       /\ current_best_tests' = candidate_tests
       /\ current_best_fitness' = candidate_fitness
       /\ evolution_history' = <<Entry(0, candidate_fitness, "initial_generation")>>]_vars

\* Generation 0 scored 0 and is the current best.
C3_Witness ==
  /\ Len(evolution_history) = 1
  /\ evolution_history[1].status = "initial_generation"
  /\ evolution_history[1].fitness_results.total_score = 0
  /\ current_best_fitness = evolution_history[1].fitness_results
  /\ current_best_tests = tests_files[0]

\* C4: whenever the generator fails in a generation, generation 0 included,
\* that generation is recorded with an empty report and status error, and
\* the run is not aborted.
C4_GeneratorFailureRecorded ==
  \A k \in 1..Len(requests) :
    requests[k].raised =>
      /\ pc # "aborted"
      /\ Len(evolution_history) > requests[k].generation
      /\ evolution_history[requests[k].generation + 1]
           = Entry(requests[k].generation, EmptyDict, "error")

\* C5: whenever the evaluation pipeline of a generation raises (sandbox
\* creation or sandbox cleanup fails), that generation is recorded with an
\* empty report and status error, and the run is not aborted.
C5_EvaluationFailureRecorded ==
  exception \in {"makedirs", "rmtree"} =>
    /\ pc # "aborted"
    /\ Len(evolution_history) > gen
    /\ evolution_history[gen + 1].status = "error"

\* The generations the generator was asked for, in the order of the calls.
Attempted == [k \in 1..Len(requests) |-> requests[k].generation]

\* C6: when evolve_tests is over, generations 0..max have each been
\* attempted exactly once, in increasing order (given that every generator
\* call returned).
C6_AllGenerationsAttempted ==
  (Ended /\ \A k \in 1..Len(requests) : ~requests[k].raised) =>
    Attempted = [k \in 1..(max_generations + 1) |-> k - 1]

\* C7: the record of a generation is in the persisted history before the
\* generator is asked for the next one, and when the run is over the
\* history holds exactly one record per index 0..max, in index order.
C7_EveryGenerationRecorded ==
  /\ \A k \in 1..Len(requests) :
       /\ requests[k].generation <= Len(history_file)
       /\ \A g \in 0..(requests[k].generation - 1) : history_file[g + 1].generation = g
  /\ Ended =>
       /\ Len(history_file) = max_generations + 1
       /\ \A g \in 0..max_generations : history_file[g + 1].generation = g

C9_NoWorkingAreaLeft ==
  (pc \in {"generate", "select", "done"} \/ (pc = "aborted" /\ exception # "rmtree"))
    => run_dirs = {}

\* evaluate_tests has returned from an evaluation in which the try block of
\* the original's environment was left by an exception and all mutants were
\* run: every area it created is gone.
C9_Witness ==
  /\ pc = "select"
  /\ candidate_fitness.test_pass_rate_correct_function = 0
  /\ ~candidate_fitness.false_positives_detected
  /\ uuid_count >= 1 + num_fault_injections
  /\ run_dirs = {}

\* C10: a timeout of the test process is returned by run_tests as a failing
\* result (non-zero status, a diagnostic), and the caller goes on.
C10_TimeoutIsFailingResult ==
  (last_run # NoRun /\ last_run.outcome.kind = "timeout") =>
    /\ ~last_run.result.raised
    /\ last_run.result.return_code # 0
    /\ last_run.result.stderr = "Error: Test execution timed out."
    /\ pc \in {"coverage_correct", "cleanup_mutated"}

\* run_tests has just returned from a timed-out run against a mutant.
C10_Witness ==
  /\ last_run # NoRun
  /\ last_run.outcome.kind = "timeout"
  /\ pc = "cleanup_mutated"

\* C11: run_tests and get_coverage never raise: an unsupported framework, a
\* missing executable, a coverage timeout and malformed coverage output all
\* come back as a failure result with a diagnostic, coverage being 0.
C11_RunnerNeverRaises ==
  /\ last_run # NoRun =>
       /\ ~last_run.result.raised
       /\ (Lower(framework) \notin {"pytest", "unittest"} =>
             last_run.result.return_code # 0)
  /\ last_coverage # NoCoverage =>
       /\ ~last_coverage.result.raised
       /\ (last_coverage.outcome.kind \in CoverageFailures =>
             last_coverage.result.percentage = 0)

\* The report evaluate_tests has just returned.
Report == candidate_fitness

Returned == pc = "select"

\* C12: the total score evaluate_tests returns is within [0, 100], for every
\* original outcome, coverage percentage, minimum-coverage target and counts
\* of attempted and detected mutants.
C12_TotalScoreInRange ==
  Returned =>
    /\ Report.total_score >= 0
    /\ Report.total_score <= 100 * ScoreScale

\* A suite that passes the original and whose sum is negative (no coverage
\* against a target it misses by far) has been scored 0.
C12_Witness ==
  /\ Returned
  /\ Report.test_pass_rate_correct_function = Pct(100)
  /\ Report.code_coverage_percentage = 0
  /\ min_coverage_spec > 100
  /\ Report.total_score = 0

\* C13: a report whose false-positive flag is set has total score 0, for
\* every coverage, minimum-coverage target and mutant counts.
C13_FalsePositiveScoresZero ==
  (Returned /\ Report.false_positives_detected) => Report.total_score = 0

\* A false positive with full coverage and every mutant detected has been
\* scored 0.
C13_Witness ==
  /\ Returned
  /\ Report.false_positives_detected
  /\ Report.code_coverage_percentage = Pct(100)
  /\ Report.bug_detection_rate = Pct(100)
  /\ Report.total_score = 0

\* C16: when the suite passes the original, total score =
\* max(0, 50 + coverage * 0.3 - max(0, target - coverage) * 0.5
\*        + bug detection rate * 0.2); so full coverage with every mutant
\* detected gives 100 (for a target that is a percentage, at most 100), and
\* 70% coverage against a target of 90 gives 61 before the bug-detection
\* term.
C16_PassingScoreFormula ==
  (Returned /\ Report.test_pass_rate_correct_function = Pct(100)
            /\ ~Report.false_positives_detected) =>
    LET cov == Report.code_coverage_percentage
        bdr == Report.bug_detection_rate
    IN  /\ Report.total_score =
             Max(0, 50 * ScoreScale + cov * 3
                      - Max(0, Pct(min_coverage_spec) - cov) * 5 + bdr * 2)
        /\ (cov = Pct(100) /\ bdr = Pct(100) /\ min_coverage_spec <= 100) =>
             Report.total_score = 100 * ScoreScale
        /\ (cov = Pct(70) /\ min_coverage_spec = 90 /\ bdr = 0) =>
             Report.total_score = 61 * ScoreScale

\* 70% coverage against a target of 90, no mutant detected: 61.
C16_Witness ==
  /\ Returned
  /\ Report.test_pass_rate_correct_function = Pct(100)
  /\ Report.code_coverage_percentage = Pct(70)
  /\ min_coverage_spec = 90
  /\ Report.bug_detection_rate = 0
  /\ Report.total_score = 61 * ScoreScale

\* The positions of evaluate_tests.
EvalPositions ==
  {"env_correct", "setup_correct", "run_correct", "coverage_correct", "cleanup_correct",
   "inject", "env_mutated", "setup_mutated", "run_mutated", "cleanup_mutated"}

Flags(r) == <<r.false_positives_detected, r.test_pass_rate_correct_function>>

\* C14: in every report the false-positive flag is set iff the suite's run
\* against the original ended with a non-zero status, and the pass rate is
\* 100 if that run succeeded and 0 otherwise: the flags are clear before the
\* run, the run sets them from its status, and nothing changes them from
\* there to the report that is returned.
C14_FlagsFollowOriginalRun ==
  [][/\ pc \in {"env_correct", "setup_correct", "run_correct"} =>
          Flags(results) = <<FALSE, 0>>
     /\ pc = "run_correct" =>
          LET r == last_run'.result
          IN  Flags(results') =
                IF r.raised THEN <<FALSE, 0>>
                ELSE IF r.return_code # 0 THEN <<TRUE, 0>>
                ELSE <<FALSE, Pct(100)>>
     /\ pc \in EvalPositions \ {"run_correct"} =>
          IF pc' = "select"
          THEN Flags(candidate_fitness') = Flags(results)
          ELSE Flags(results') = Flags(results)]_vars

\* A report with the flag set has been returned for a suite that passes the
\* original, after its run on the original ended with a non-zero status
\* (a flaky failure, a timeout, a missing executable).
C14_Witness ==
  /\ Returned
  /\ Report.false_positives_detected
  /\ Report.test_pass_rate_correct_function = 0
  /\ faults = 1
  /\ Behaviour(candidate_tests).passes

\* C15: the bug detection rate is detected / attempted * 100, where a
\* mutant whose text equals the original's (after strip) is not attempted
\* and every attempted mutant whose run returned a non-zero status is
\* detected; the rate is 0 when no mutant was attempted.
C15_BugDetectionRate ==
  [][/\ pc = "env_correct" => (total_faults_attempted = 0 /\ detected_bugs = 0)
     /\ (pc = "inject" /\ i < num_fault_injections) =>
          /\ total_faults_attempted' = total_faults_attempted +
               (IF Strip(mutated_function_code') = Strip(target_function_code)
                THEN 0 ELSE 1)
          /\ detected_bugs' = detected_bugs
     /\ pc = "run_mutated" =>
          /\ detected_bugs' = detected_bugs +
               (IF ~last_run'.result.raised /\ last_run'.result.return_code # 0
                THEN 1 ELSE 0)
          /\ total_faults_attempted' = total_faults_attempted
     /\ pc \in EvalPositions \ {"inject", "run_mutated"} =>
          /\ total_faults_attempted' = total_faults_attempted
          /\ detected_bugs' = detected_bugs
     /\ (pc = "inject" /\ i = num_fault_injections) =>
          /\ pc' = "select"
          /\ IF total_faults_attempted = 0
             THEN candidate_fitness'.bug_detection_rate = 0
             ELSE candidate_fitness'.bug_detection_rate * total_faults_attempted
                    = detected_bugs * Pct(100)]_vars

\* A report with two of three attempted mutants detected.
C15_Witness ==
  /\ Returned
  /\ Report.bug_detection_rate * 3 = 2 * Pct(100)

\* C17: mutation is deterministic: a call of inject_simple_fault with the
\* text and fault count of an earlier call returns the same text and injects
\* the same number of faults, whatever mutation or random calls happened in
\* between (the seed is the constant 0 of every call).
C17_MutationDeterministic ==
  [][\A n \in DOMAIN injections :
       /\ injections'[n].text = injections[n].text
       /\ injections'[n].faults_injected = injections[n].faults_injected]_vars

\* A call on a text with mutable sites has been repeated after other code
\* used the generator.
C17_Witness ==
  /\ PossibleFaultLocations(target_function_code.tree) # <<>>
  /\ \E n \in DOMAIN injections : injections[n].repeated

\* C18: the number of faults the injector reports equals
\* min(num_faults, number of mutable sites); nothing is raised when the
\* sites run out (5 requested with 2 sites gives 2).
C18_FaultsInjectedIsMin ==
  \A n \in DOMAIN injections :
    target_function_code.syntax_ok =>
      injections[n].faults_injected
        = Min(n, Len(PossibleFaultLocations(target_function_code.tree)))

\* Five faults were requested on a text of two sites; two were injected.
C18_Witness ==
  /\ Len(PossibleFaultLocations(target_function_code.tree)) = 2
  /\ 5 \in DOMAIN injections
  /\ injections[5].faults_injected = 2

\* C19: on a text without a mutable site inject_simple_fault returns the
\* text it was given, with no fault injected, and evaluate_tests does not
\* attempt it.
C19_NoSiteReturnsInput ==
  (/\ target_function_code.syntax_ok
   /\ PossibleFaultLocations(target_function_code.tree) = <<>>
   /\ 1 \in DOMAIN injections) =>
     /\ injections[1].text = target_function_code
     /\ injections[1].faults_injected = 0
     /\ total_faults_attempted = 0

\* C20: once the specification is loaded nothing aborts the run: every
\* failure of the generator, of the evaluation or of a mutation stays within
\* its generation or mutant, and when the workflow is over it has attempted
\* every generation 0..max and returns its result.
C20_NothingAbortsTheRun ==
  /\ pc # "aborted"
  /\ exception = "none"
  /\ pc = "done" =>
       /\ Attempted = [k \in 1..(max_generations + 1) |-> k - 1]
       /\ Len(evolution_history) = max_generations + 1

(* ------------------------- persisted suites --------------------------- *)

\* C21: once the run is over, select retrieves for every generation the suite
\* text the generator returned in that generation: each generator call that
\* returned a text has its file, and the file holds that text.
C21_SelectRetrievesGeneratedSuite ==
  Ended =>
    \A k \in 1..Len(requests) :
      ~requests[k].raised =>
        /\ select(tests_files, requests[k].generation).exit_code = 0
        /\ select(tests_files, requests[k].generation).selected_tests = requests[k].tests

\* C23: a source text that does not parse fails that one mutation attempt
\* only: the injector hands the text back, the turn of the loop ends without
\* a mutant (no sandbox is created for it, nothing is run), the count of
\* attempted mutants stays, no exception leaves the evaluation, and the loop
\* goes on to its next turn.
C23_InvalidSourceSkipsAttempt ==
  [][(pc = "inject" /\ i < num_fault_injections /\ ~target_function_code.syntax_ok) =>
       /\ mutated_function_code' = target_function_code
       /\ injections'[1].faults_injected = 0
       /\ total_faults_attempted' = total_faults_attempted
       /\ detected_bugs' = detected_bugs
       /\ run_dirs' = run_dirs
       /\ exception' = exception
       /\ i' = i + 1
       /\ pc' = "inject"]_vars

\* The run on a text that does not parse returned after all its generations
\* were evaluated, every injection having handed the text back.
C23_Witness ==
  /\ pc = "done"
  /\ ~target_function_code.syntax_ok
  /\ max_generations >= 1
  /\ Len(evolution_history) = max_generations + 1
  /\ 1 \in DOMAIN injections
  /\ injections[1].text = target_function_code

(* --------------------- what an injection changes ---------------------- *)

\* The sites whose rendering differs between the text given to the injector
\* and the text it returned.
ChangedSites(before, after) ==
  {x \in 1..Len(before.tree) : before.tree[x] # after.tree[x]}

\* C24: every selected site is changed by the operator of its kind, so the
\* number of faults the injector reports equals the number of sites whose
\* rendered text changed, for every kind of site collected, loops and
\* return statements included.
C24_EveryCountedFaultChangesItsSite ==
  \A n \in DOMAIN injections :
    target_function_code.syntax_ok =>
      injections[n].faults_injected
        = Cardinality(ChangedSites(target_function_code, injections[n].text))

(* ------------------------------ feedback ------------------------------ *)

C26_OneWorkingAreaAtATime ==
  [][/\ Cardinality(run_dirs') <= 1
     /\ (run_dirs' \ run_dirs # {}) => run_dirs = {}
     /\ (requests' # requests) => run_dirs = {}]_vars

\* In a generation after the first, the suite runs in the area of the second
\* mutant, the only area there is.
C26_Witness ==
  /\ pc = "run_mutated"
  /\ gen >= 1
  /\ i = 1
  /\ uuid_count >= 2 * (1 + 1) + 1
  /\ run_dirs = {env_run_dir}

(* ------------------------ mutants of one evaluation -------------------- *)

\* C27: within one evaluation every fault injection returns the same text
\* as the one before it (each call seeds the generator with 0 and asks for
\* one fault); hence, when every external call of the run takes its nominal
\* outcome, so that the suite's verdict is a function of the text it is run
\* on, the bug detection rate of a report is 0 or 100.
C27_SameMutantEveryTime ==
  [][/\ (pc = "inject" /\ i < num_fault_injections /\ mutated_function_code # None) =>
          mutated_function_code' = mutated_function_code
     /\ (pc' = "select" /\ faults' = 0) =>
          candidate_fitness'.bug_detection_rate \in {0, Pct(100)}]_vars

\* The third mutant of an evaluation has been run as the first two, all
\* were attempted and detected, and no external call deviated.
C27_Witness ==
  /\ pc = "inject"
  /\ i = num_fault_injections
  /\ total_faults_attempted = num_fault_injections
  /\ detected_bugs = num_fault_injections
  /\ faults = 0
  /\ mutated_function_code # None
  /\ mutated_function_code.tree # target_function_code.tree

(* ----------------------- the flags of a report ------------------------ *)

\* C28: in every report evaluate_tests returns exactly one of the two
\* holds: the pass rate on the original is 100, or the false-positive flag
\* is set; also when the setup of the environment or the run against the
\* original raised inside the evaluator.
C28_PassedOrFalsePositive ==
  Returned =>
    (Report.test_pass_rate_correct_function = Pct(100))
      # Report.false_positives_detected

(* ------------------------- the result of a run ------------------------ *)

\* The records of evaluated generations, and those that became the best.
EvaluatedRecords(history) == {k \in 1..Len(history) : history[k].status # "error"}
BestRecords(history) ==
  {k \in 1..Len(history) : history[k].status \in {"initial_generation", "new_best"}}

Live(envs) == {e \in DOMAIN envs : envs[e].phase # "cleaned"}

\* C22: no two environments that exist at the same time share a working
\* area: the areas of live environments have pairwise different names, and
\* the area of every live environment exists and holds the files the
\* environment wrote, whichever other environments were released meanwhile.
C22_SandboxesDoNotShare ==
  /\ \A a, b \in Live(environments) :
       a # b => environments[a].run_dir # environments[b].run_dir
  /\ \A e \in Live(environments) :
       /\ environments[e].run_dir \in run_dirs
       /\ environments[e].written \subseteq sandbox_files[environments[e].run_dir]

\* Three environments were constructed, the first two were set up, the
\* second was released, and the first still has its files.
C22_Witness ==
  /\ Len(environments) = 3
  /\ environments[1].phase = "set_up"
  /\ environments[2].phase = "cleaned"
  /\ environments[3].phase = "created"
  /\ environments[2].run_dir \notin run_dirs
  /\ sandbox_files[environments[1].run_dir] # {}

(* --------------------------- concurrent runs --------------------------- *)

\* C30: two distinct runs never share a run identifier (hence an output
\* directory), also when they are started within the same clock second or
\* run concurrently; so the directory of each run holds that run's history
\* and that run's suite files, never overwritten by another run.
C30_RunsDoNotShare ==
  /\ \A a, b \in DOMAIN orchestrators :
       a # b => orchestrators[a].run_id # orchestrators[b].run_id
  /\ \A r \in DOMAIN orchestrators :
       LET o == orchestrators[r]
           dir == output_dirs[o.run_id]
       IN  /\ dir.history_file = o.evolution_history
           /\ \A k \in 1..Len(o.tests) : dir.tests_files[k - 1] = o.tests[k]

====
